---- MODULE Spec2Model ----
(***************************************************************************)
(* A model of dagre's layered layout pipeline (lib/layout.js) and of its   *)
(* rank assignment (lib/rank.js), both held in src/lib/layout.js.          *)
(*                                                                         *)
(* Objects are modelled as records whose DOMAIN is the set of properties   *)
(* the JavaScript object has, so `"minLen" in value` is                    *)
(* "minLen" \in DOMAIN value.  Node value objects are shared by the        *)
(* working graph, its copies and filtered views and the spanning tree, so  *)
(* they live in one store nv keyed by node id.  Edge value objects can be  *)
(* shared by several edges, so edges hold a reference (an index) into the  *)
(* store ev.                                                               *)
(***************************************************************************)
EXTENDS Integers, Sequences, FiniteSets, TLC

\* ------------------------------------------------------------------ bounds
\* run's inputs: at most MaxNodes nodes, edges and rank-constrained nodes
\* together at most MaxInputSize, minLen at most MaxMinLen.
MaxNodes == 3
MaxInputSize == 2
MaxMinLen == 3
\* rank's inputs: at most MaxRankNodes nodes and MaxRankEdges edges of minLen at
\* most MaxRankMinLen; with rank constraints, edges and constrained nodes
\* together at most MaxRankSize.
MaxRankNodes == 4
MaxRankEdges == 4
MaxRankMinLen == 2
MaxRankSize == 3
\* initRank's inputs: at most MaxInitNodes nodes and MaxInitEdges edges of
\* minLen at most MaxInitMinLen.
MaxInitNodes == 3
MaxInitEdges == 3
MaxInitMinLen == 2
\* rank's inputs when it runs the network simplex: without rank constraints at
\* most MaxSimplexNodes nodes and MaxSimplexEdges edges; with rank constraints
\* at most MaxSimplexRankNodes nodes and MaxSimplexRankEdges edges, and at most
\* MaxSimplexPerRank nodes for "min" and as many for "max"; minLen at most
\* MaxSimplexMinLen.
MaxSimplexNodes == 4
MaxSimplexEdges == 5
MaxSimplexMinLen == 2
MaxSimplexRankNodes == 4
MaxSimplexRankEdges == 3
MaxSimplexPerRank == 1

\* --------------------------------------------------------------- variables
VARIABLES
  pc,            \* the statement of run / rank that executes next
  inputGraph,    \* the caller's graph: [order, rank, edges, directed]
  rankSep,       \* the layout object's rankSep configuration (position.rankSep)
  rankSepLocal,  \* run's local `rankSep`, read on entry
  g,             \* the working graph W: [nodes, edges, nextId]
  nv,            \* node value objects, by node id
  ev,            \* edge value objects, by reference
  reduced,       \* rank's reduced graph: [nodes, edges, nextId, compoundNodes]
  cmpts,         \* components(reduced) still to be ranked, and the one at hand
  tree,          \* the spanning tree of the component at hand
  out,           \* the graph run returns
  outcome,       \* "running", "returned" or "thrown"
  useSimplex,    \* rank's second argument
  before,        \* history: rankSep and the input graph before the call
  pivot          \* rank's loop variables e and f, and the exchanges made so far

vars == <<pc, inputGraph, rankSep, rankSepLocal, g, nv, ev, reduced, cmpts,
          tree, out, outcome, useSimplex, before, pivot>>

\* ------------------------------------------------------- objects and lists
Has(o, k) == k \in DOMAIN o

SetField(o, k, x) == [f \in DOMAIN o \cup {k} |-> IF f = k THEN x ELSE o[f]]

DelField(o, k) == [f \in DOMAIN o \ {k} |-> o[f]]

Range(s) == {s[i] : i \in DOMAIN s}

SetMin(S) == CHOOSE x \in S : \A y \in S : x <= y

SetMax(S) == CHOOSE x \in S : \A y \in S : x >= y

Abs(x) == IF x < 0 THEN -x ELSE x

\* Ids the graph library generates for addNode(null, ..) / addEdge(null, ..),
\* and the ids normalize gives its dummy nodes.  Input nodes are 1..order and
\* input edges 1..Len(edges).
AnonEdge(k) == 100 + k

AnonNode(k) == 100 + k

DummyNode(k) == 200 + k

\* ------------------------------------------------- the graph library (used)
EmptyGraph == [nodes |-> <<>>, edges |-> <<>>, nextId |-> 0]

NodeSet(G) == Range(G.nodes)

AddNode(G, u) == [G EXCEPT !.nodes = Append(@, u)]

AddAnonEdge(G, u, v, ref) ==
  [G EXCEPT !.edges = Append(@, [id |-> AnonEdge(G.nextId + 1), u |-> u, v |-> v, val |-> ref]),
            !.nextId = @ + 1]

AddEdge(G, id, u, v, ref) ==
  [G EXCEPT !.edges = Append(@, [id |-> id, u |-> u, v |-> v, val |-> ref])]

DelEdge(G, id) == [G EXCEPT !.edges = SelectSeq(@, LAMBDA e : e.id # id)]

DelNode(G, u) ==
  [G EXCEPT !.nodes = SelectSeq(@, LAMBDA n : n # u),
            !.edges = SelectSeq(@, LAMBDA e : e.u # u /\ e.v # u)]

HasEdge(G, id) == \E i \in DOMAIN G.edges : G.edges[i].id = id

InEdges(G, u) == SelectSeq(G.edges, LAMBDA e : e.v = u)

OutEdges(G, u) == SelectSeq(G.edges, LAMBDA e : e.u = u)

FilterNodes(G, S) ==
  [G EXCEPT !.nodes = SelectSeq(@, LAMBDA n : n \in S),
            !.edges = SelectSeq(@, LAMBDA e : e.u \in S /\ e.v \in S)]

\* Nodes reachable from a set along edges taken in either direction.
RECURSIVE Connected(_, _)
Connected(G, S) ==
  LET T == S \cup {e.v : e \in {x \in Range(G.edges) : x.u \in S}}
             \cup {e.u : e \in {x \in Range(G.edges) : x.v \in S}}
  IN IF T = S THEN S ELSE Connected(G, T)

\* components(g): the weakly connected components, each in node order, in the
\* order of their first nodes.
RECURSIVE ComponentsFrom(_, _)
ComponentsFrom(G, left) ==
  IF left = <<>> THEN <<>>
  ELSE LET c == Connected(G, {Head(left)})
       IN <<SelectSeq(G.nodes, LAMBDA n : n \in c)>>
            \o ComponentsFrom(G, SelectSeq(left, LAMBDA n : n \notin c))

Components(G) == ComponentsFrom(G, G.nodes)

\* --------------------------------------------------------- the input graphs
PrefRanks == {"none", "min", "max", "r1"}

InputEdgeValues(n, lens) == [u : 1..n, v : 1..n, minLen : lens]

RankSeps == {30}

\* The nodes with a rank constraint.  (In an input edge a minLen of 0 stands
\* for a value that gives no minLen.)
Constrained(rank) == {u \in DOMAIN rank : rank[u] # "none"}

\* The rank constraints on n nodes that constrain at most k of them.
RankChoices(n, k) == {r \in [1..n -> PrefRanks] : Cardinality(Constrained(r)) <= k}

\* The input graphs of n nodes and k edges, self-loops apart.
InputGraphs(n, k) ==
  [order : {n},
   rank : RankChoices(n, MaxInputSize - k),
   edges : [1..k -> {e \in InputEdgeValues(n, 0..MaxMinLen) : e.u # e.v}],
   directed : BOOLEAN]

\* The lists that hold the pairs of P once each, in the order of source and
\* target.
RECURSIVE SortedPairs(_)
SortedPairs(P) ==
  IF P = {} THEN <<>>
  ELSE LET first == CHOOSE p \in P :
                      \A q \in P : p[1] < q[1] \/ (p[1] = q[1] /\ p[2] <= q[2])
       IN <<first>> \o SortedPairs(P \ {first})

EdgeLists(n, maxEdges, lens) ==
  UNION {LET ps == SortedPairs(P)
         IN {[i \in DOMAIN ps |-> [u |-> ps[i][1], v |-> ps[i][2], minLen |-> f[i]]] :
               f \in [DOMAIN ps -> lens]} :
           P \in {Q \in SUBSET {p \in (1..n) \X (1..n) : p[1] # p[2]} :
                    Cardinality(Q) <= maxEdges}}

\* Working graphs without rank constraints.
PlainRankInputs ==
  UNION {[order : {n}, rank : {[u \in 1..n |-> "none"]},
          edges : EdgeLists(n, MaxRankEdges, 1..MaxRankMinLen),
          directed : {TRUE}] : n \in 1..MaxRankNodes}

\* Working graphs with rank constraints.
ConstrainedRankInputs ==
  UNION {[order : {n},
          rank : RankChoices(n, MaxRankSize - k),
          edges : {l \in EdgeLists(n, k, 1..MaxRankMinLen) : Len(l) = k},
          directed : {TRUE}] : <<n, k>> \in (1..MaxRankNodes) \X (0..MaxRankSize)}

\* Graphs of n nodes and k edges for initRank alone: any edges, self-loops and
\* multi-edges included; a minLen of -1 stands for an edge value without minLen.
InitRankInputs(n, k) ==
  [order : {n}, edges : [1..k -> InputEdgeValues(n, -1..MaxInitMinLen)]]

NoGraph == [nodes |-> <<>>, edges |-> <<>>, nextId |-> 0, compoundNodes |-> <<>>]

NoTree == [nodes |-> <<>>, edges |-> <<>>, root |-> 0]

NoOut == [kind |-> "none", nodes |-> <<>>, edges |-> <<>>]

\* No edge is leaving or entering (e and f are edge ids, 0 for none) and no
\* exchange has been made yet.
NoPivot == [e |-> 0, f |-> 0, exchanges |-> 0]

\* ------------------------------------------------------- run: the Build stage
RECURSIVE AddInputNodes(_, _, _)
AddInputNodes(input, st, u) ==
  IF u > input.order THEN st
  ELSE LET value == [width |-> 0, height |-> 0]
           withRank == IF input.rank[u] # "none"
                       THEN SetField(value, "prefRank", input.rank[u])
                       ELSE value
       IN AddInputNodes(input,
                        [st EXCEPT !.g = AddNode(@, u), !.nv = @ @@ (u :> withRank)],
                        u + 1)

RECURSIVE AddInputEdges(_, _, _)
AddInputEdges(input, st, e) ==
  IF e > Len(input.edges) THEN st
  ELSE LET value == input.edges[e]
           newValue == [e |-> e,
                        minLen |-> IF value.minLen = 0 THEN 1 ELSE value.minLen,
                        width |-> 0, height |-> 0, points |-> <<>>]
           ev1 == Append(st.ev, newValue)
           g1 == AddAnonEdge(st.g, value.u, value.v, Len(ev1))
           \* an undirected input also gets the reverse edge, with the same value
           g2 == IF ~input.directed
                 THEN AddAnonEdge(g1, value.v, value.u, Len(ev1))
                 ELSE g1
       IN AddInputEdges(input, [st EXCEPT !.g = g2, !.ev = ev1], e + 1)

initLayoutGraph(input) ==
  AddInputEdges(input,
                AddInputNodes(input, [g |-> EmptyGraph, nv |-> <<>>, ev |-> <<>>], 1),
                1)

\* run, lines 104-112: read rankSep, build W, return W itself when it is empty.
RunBuild ==
  /\ pc = "run"
  /\ rankSepLocal' = rankSep
  /\ LET st == initLayoutGraph(inputGraph)
     IN /\ g' = st.g
        /\ nv' = st.nv
        /\ ev' = st.ev
        /\ IF Len(st.g.nodes) = 0
           THEN /\ out' = [kind |-> "CDigraph", nodes |-> st.g.nodes, edges |-> st.g.edges]
                /\ outcome' = "returned"
                /\ pc' = "finally"
           ELSE /\ pc' = "makeSpace"
                /\ UNCHANGED <<out, outcome>>
  /\ UNCHANGED <<inputGraph, rankSep, reduced, cmpts, tree, useSimplex, before, pivot>>

\* A variant that leaves every minLen as it is.
KeepMinLens(edges, E, i) == E

\* g.eachEdge(function(e, s, t, a) { a.minLen *= 2; }): once per edge, on the
\* value object the edge holds.
RECURSIVE DoubleMinLens(_, _, _)
DoubleMinLens(edges, E, i) ==
  IF i > Len(edges) THEN E
  ELSE DoubleMinLens(edges, [E EXCEPT ![edges[i].val].minLen = @ * 2], i + 1)

\* run, lines 114-118.
MakeSpace ==
  /\ pc = "makeSpace"
  /\ ev' = DoubleMinLens(g.edges, ev, 1)
  /\ rankSep' = rankSepLocal \div 2
  /\ pc' = "acyclic"
  /\ UNCHANGED <<inputGraph, rankSepLocal, g, nv, reduced, cmpts, tree, out, outcome,
                 useSimplex, before, pivot>>

\* ------------------------------------------------------------------ acyclic
\* Kahn's test: no directed cycle among the nodes S along the edges.
RECURSIVE NoCycle(_, _)
NoCycle(S, edges) ==
  IF S = {} THEN TRUE
  ELSE LET sources == {n \in S : \A e \in edges : ~(e.v = n /\ e.u \in S)}
       IN IF sources = {} THEN FALSE ELSE NoCycle(S \ sources, edges)

Flip(e) == [e EXCEPT !.u = e.v, !.v = e.u]

ReverseEdges(edges, R) ==
  [i \in DOMAIN edges |-> IF edges[i].id \in R THEN Flip(edges[i]) ELSE edges[i]]

RECURSIVE Reachable(_, _)
Reachable(edges, S) ==
  LET T == S \cup {e.v : e \in {x \in edges : x.u \in S}}
  IN IF T = S THEN S ELSE Reachable(edges, T)

\* The sets of edges whose reversal leaves no directed cycle, and that have no
\* proper subset doing so (a minimal feedback arc set).
FeedbackSets(G) ==
  LET es == Range(G.edges)
      onCycle == {e.id : e \in {x \in es : x.u \in Reachable(es, {x.v})}}
      Breaks(R) == NoCycle(NodeSet(G), Range(ReverseEdges(G.edges, R)))
      good == {R \in SUBSET onCycle : Breaks(R)}
  IN {R \in good : \A Q \in good : ~(Q \subseteq R /\ Q # R)}

RECURSIVE MarkReversed(_, _, _, _)
MarkReversed(edges, R, E, i) ==
  IF i > Len(edges) THEN E
  ELSE MarkReversed(edges, R,
                    IF edges[i].id \in R
                    THEN [E EXCEPT ![edges[i].val] = SetField(@, "reversed", TRUE)]
                    ELSE E,
                    i + 1)

\* acyclic(g): self-loops leave the working set, a feedback arc set is reversed
\* and every reversed edge's value carries reversed = true.
acyclic(G, E) ==
  LET noLoops == [G EXCEPT !.edges = SelectSeq(@, LAMBDA e : e.u # e.v)]
  IN {[g |-> [noLoops EXCEPT !.edges = ReverseEdges(@, R)],
       ev |-> MarkReversed(noLoops.edges, R, E, 1)] : R \in FeedbackSets(noLoops)}

\* run, line 122.
Acyclic ==
  /\ pc = "acyclic"
  /\ \E r \in acyclic(g, ev) :
       /\ g' = r.g
       /\ ev' = r.ev
  /\ pc' = IF inputGraph.directed THEN "rank" ELSE "removeDupEdges"
  /\ UNCHANGED <<inputGraph, rankSep, rankSepLocal, nv, reduced, cmpts, tree, out,
                 outcome, useSimplex, before, pivot>>

\* --------------------------------------------------------- removeDupEdges
RECURSIVE removeDupEdgesFrom(_, _, _, _, _)
removeDupEdgesFrom(G, E, edges, visited, i) ==
  IF i > Len(edges) THEN G
  ELSE LET e == edges[i]
       IN removeDupEdgesFrom(IF E[e.val].e \in visited THEN DelEdge(G, e.id) ELSE G,
                             E, edges, visited \cup {E[e.val].e}, i + 1)

removeDupEdges(G, E) == removeDupEdgesFrom(G, E, G.edges, {}, 1)

\* run, lines 128-130.
RemoveDupEdges ==
  /\ pc = "removeDupEdges"
  /\ g' = removeDupEdges(g, ev)
  /\ pc' = "rank"
  /\ UNCHANGED <<inputGraph, rankSep, rankSepLocal, nv, ev, reduced, cmpts, tree, out,
                 outcome, useSimplex, before, pivot>>

\* ====================================================================== rank
\* ------------------------------------------------------------- combineRanks
\* g.inEdges(u).forEach(..): each edge into u is re-added at the compound node,
\* turned round for "min", and deleted.
RECURSIVE RedirectInEdges(_, _, _, _, _)
RedirectInEdges(G, edges, rank, newU, i) ==
  IF i > Len(edges) THEN G
  ELSE LET e == edges[i]
           added == IF rank = "min"
                    THEN AddAnonEdge(G, newU, e.u, e.val)
                    ELSE AddAnonEdge(G, e.u, newU, e.val)
       IN RedirectInEdges(DelEdge(added, e.id), edges, rank, newU, i + 1)

\* g.outEdges(u).forEach(..): likewise for the edges out of u, turned round for
\* "max".
RECURSIVE RedirectOutEdges(_, _, _, _, _)
RedirectOutEdges(G, edges, rank, newU, i) ==
  IF i > Len(edges) THEN G
  ELSE LET e == edges[i]
           added == IF rank = "max"
                    THEN AddAnonEdge(G, e.v, newU, e.val)
                    ELSE AddAnonEdge(G, newU, e.v, e.val)
       IN RedirectOutEdges(DelEdge(added, e.id), edges, rank, newU, i + 1)

\* The body of combineRanks' g.eachNode for one node u.
CombineNode(st, u) ==
  IF ~Has(st.nv[u], "prefRank") THEN st
  ELSE LET rank == st.nv[u].prefRank
           known == Has(st.prefRankToNode, rank)
           newU == IF known THEN st.prefRankToNode[rank] ELSE AnonNode(st.g.nextId + 1)
           g0 == IF known THEN st.g
                 ELSE [st.g EXCEPT !.nodes = Append(@, newU), !.nextId = @ + 1,
                                   !.compoundNodes = Append(@, newU)]
           nv0 == IF known THEN st.nv ELSE st.nv @@ (newU :> [originalNodes |-> <<>>])
           g1 == RedirectInEdges(g0, InEdges(g0, u), rank, newU, 1)
           g2 == RedirectOutEdges(g1, OutEdges(g1, u), rank, newU, 1)
       IN [st EXCEPT !.g = DelNode(g2, u),
                     !.nv = [nv0 EXCEPT ![newU].originalNodes = Append(@, u)],
                     !.prefRankToNode = SetField(@, rank, newU)]

RECURSIVE CombineNodes(_, _, _)
CombineNodes(st, nodes, i) ==
  IF i > Len(nodes) THEN st
  ELSE CombineNodes(CombineNode(st, nodes[i]), nodes, i + 1)

\* g.nodes().forEach(function(u) { g.addEdge(null, minNode, u, { minLen: 0 }); })
RECURSIVE AddMinEdges(_, _, _, _)
AddMinEdges(st, minNode, nodes, i) ==
  IF i > Len(nodes) THEN st
  ELSE LET ev1 == Append(st.ev, [minLen |-> 0])
       IN AddMinEdges([st EXCEPT !.g = AddAnonEdge(@, minNode, nodes[i], Len(ev1)),
                                 !.ev = ev1],
                      minNode, nodes, i + 1)

\* g.nodes().forEach(function(u) { g.addEdge(null, u, maxNode, { minLen: 0 }); })
RECURSIVE AddMaxEdges(_, _, _, _)
AddMaxEdges(st, maxNode, nodes, i) ==
  IF i > Len(nodes) THEN st
  ELSE LET ev1 == Append(st.ev, [minLen |-> 0])
       IN AddMaxEdges([st EXCEPT !.g = AddAnonEdge(@, nodes[i], maxNode, Len(ev1)),
                                 !.ev = ev1],
                      maxNode, nodes, i + 1)

needsReduction(G, NV) == \E u \in NodeSet(G) : Has(NV[u], "prefRank")

\* combineRanks up to its call of acyclic: the reduced graph, one compound node
\* per prefRank value.
CondensedGraph(G, NV, E) ==
  LET copy == [nodes |-> G.nodes, edges |-> G.edges, nextId |-> G.nextId,
               compoundNodes |-> <<>>]
      st1 == CombineNodes([g |-> copy, nv |-> NV, ev |-> E, prefRankToNode |-> <<>>],
                          copy.nodes, 1)
      st2 == IF Has(st1.prefRankToNode, "min")
             THEN AddMinEdges(st1, st1.prefRankToNode["min"], st1.g.nodes, 1)
             ELSE st1
  IN IF Has(st2.prefRankToNode, "max")
     THEN AddMaxEdges(st2, st2.prefRankToNode["max"], st2.g.nodes, 1)
     ELSE st2

\* combineRanks(g): the possible results, one per choice acyclic can make.
combineRanks(G, NV, E) ==
  IF ~needsReduction(G, NV)
  THEN {[g |-> [nodes |-> G.nodes, edges |-> G.edges, nextId |-> G.nextId,
                compoundNodes |-> <<>>],
         nv |-> NV, ev |-> E]}
  ELSE LET st == CondensedGraph(G, NV, E)
       IN {[g |-> [st.g EXCEPT !.nodes = r.g.nodes, !.edges = r.g.edges],
            nv |-> st.nv, ev |-> r.ev] : r \in acyclic(st.g, st.ev)}

\* rank, lines 281-283.
RankCombine ==
  /\ pc = "rank"
  /\ \E r \in combineRanks(g, nv, ev) :
       /\ reduced' = r.g
       /\ nv' = r.nv
       /\ ev' = r.ev
  /\ pc' = "initRank"
  /\ UNCHANGED <<inputGraph, rankSep, rankSepLocal, g, cmpts, tree, out, outcome,
                 useSimplex, before, pivot>>

\* ----------------------------------------------------------------- initRank
\* A variant that reads the length as value.minLen || 1.
EdgeMinLenOrOne(value) ==
  IF Has(value, "minLen") /\ value.minLen # 0 THEN value.minLen ELSE 1

EdgeMinLen(value) == IF Has(value, "minLen") THEN value.minLen ELSE 1

Max2(a, b) == IF a >= b THEN a ELSE b

\* g.outEdges(minId).forEach(updateTargetNode)
RECURSIVE UpdateTargets(_, _, _, _, _)
UpdateTargets(edges, E, NV, q, i) ==
  IF i > Len(edges) THEN q
  ELSE LET e == edges[i]
           rank == NV[e.u].rank
           minLen == EdgeMinLen(E[e.val])
       IN UpdateTargets(edges, E, NV,
                        [q EXCEPT !.minRank[e.v] = Max2(@, rank + minLen),
                                  !.pq[e.v] = @ - 1],
                        i + 1)

\* pq.min(): a node of least priority (the first in node order among equals).
PqMin(G, pq) ==
  LET least == SetMin({pq[u] : u \in DOMAIN pq})
      i == SetMin({j \in DOMAIN G.nodes : G.nodes[j] \in DOMAIN pq /\ pq[G.nodes[j]] = least})
  IN G.nodes[i]

\* The while loop of initRank.
RECURSIVE initRankLoop(_, _, _, _)
initRankLoop(G, E, NV, q) ==
  IF DOMAIN q.pq = {} THEN [nv |-> NV, thrown |-> FALSE]
  ELSE LET minId == PqMin(G, q.pq)
       IN IF q.pq[minId] > 0 THEN [nv |-> NV, thrown |-> TRUE]
          ELSE LET NV1 == [NV EXCEPT ![minId] = SetField(@, "rank", q.minRank[minId])]
                   removed == [q EXCEPT !.pq = [u \in DOMAIN q.pq \ {minId} |-> q.pq[u]]]
               IN initRankLoop(G, E, NV1,
                               UpdateTargets(OutEdges(G, minId), E, NV1, removed, 1))

initRank(G, E, NV) ==
  initRankLoop(G, E, NV,
               [pq |-> [u \in NodeSet(G) |-> Len(InEdges(G, u))],
                minRank |-> [u \in NodeSet(G) |-> 0]])

\* rank, lines 285-287: initRank throws, or the components are listed.
RankInit ==
  /\ pc = "initRank"
  /\ LET r == initRank(reduced, ev, nv)
     IN /\ nv' = r.nv
        /\ IF r.thrown
           THEN /\ outcome' = "thrown"
                /\ pc' = "finally"
                /\ UNCHANGED cmpts
           ELSE /\ cmpts' = Components(reduced)
                /\ pc' = "feasibleTree"
                /\ UNCHANGED outcome
  /\ UNCHANGED <<inputGraph, rankSep, rankSepLocal, g, ev, reduced, tree, out, useSimplex, before, pivot>>

\* ------------------------------------------------------------- feasibleTree
incidenceId(u, v) == {u, v}

\* Collapse multi-edges: one entry per pair of nodes, its len the largest
\* minLen of the pair's edges, its e the first of them.
RECURSIVE MinLenEntries(_, _, _, _)
MinLenEntries(edges, E, minLen, i) ==
  IF i > Len(edges) THEN minLen
  ELSE LET e == edges[i]
           id == incidenceId(e.u, e.v)
           known == {j \in DOMAIN minLen : incidenceId(minLen[j].u, minLen[j].v) = id}
           withEntry == IF known = {}
                        THEN Append(minLen, [e |-> e.id, u |-> e.u, v |-> e.v, len |-> 0])
                        ELSE minLen
           j == IF known = {} THEN Len(withEntry) ELSE CHOOSE k \in known : TRUE
       IN MinLenEntries(edges, E,
                        [withEntry EXCEPT ![j].len = Max2(@, EdgeMinLen(E[e.val]))],
                        i + 1)

slack(NV, mle) == Abs(NV[mle.u].rank - NV[mle.v].rank) - mle.len

\* findMinSlack: scan the entries in order and keep the first of least slack
\* among those with exactly one end in the tree; "none" when there is none.
RECURSIVE findMinSlackFrom(_, _, _, _, _, _)
findMinSlackFrom(minLen, NV, remaining, result, eSlack, i) ==
  IF i > Len(minLen) THEN result
  ELSE LET mle == minLen[i]
           crossing == (mle.u \in remaining) # (mle.v \in remaining)
           better == crossing /\ (result.found = FALSE \/ slack(NV, mle) < eSlack)
           found == IF mle.u \notin remaining
                    THEN [found |-> TRUE, e |-> mle.e, treeNode |-> mle.u,
                          graphNode |-> mle.v, len |-> mle.len]
                    ELSE [found |-> TRUE, e |-> mle.e, treeNode |-> mle.v,
                          graphNode |-> mle.u, len |-> -mle.len]
       IN IF better
          THEN findMinSlackFrom(minLen, NV, remaining, found, slack(NV, mle), i + 1)
          ELSE findMinSlackFrom(minLen, NV, remaining, result, eSlack, i + 1)

findMinSlack(minLen, NV, remaining) ==
  findMinSlackFrom(minLen, NV, remaining,
                   [found |-> FALSE, e |-> 0, treeNode |-> 0, graphNode |-> 0, len |-> 0],
                   0, 1)

\* The rank feasibleTree gives the node it adds to the tree.
TightRank(NV, result) == NV[result.treeNode].rank + result.len

\* The while loop of feasibleTree.
RECURSIVE GrowTree(_, _, _, _)
GrowTree(minLen, NV, remaining, T) ==
  IF remaining = {} THEN [nv |-> NV, tree |-> T, thrown |-> FALSE]
  ELSE LET result == findMinSlack(minLen, NV, remaining)
       IN IF ~result.found THEN [nv |-> NV, tree |-> T, thrown |-> TRUE]
          ELSE GrowTree(minLen,
                        [NV EXCEPT ![result.graphNode].rank = TightRank(NV, result)],
                        remaining \ {result.graphNode},
                        [T EXCEPT !.nodes = Append(@, result.graphNode),
                                  !.edges = Append(@, [id |-> result.e,
                                                       u |-> result.treeNode,
                                                       v |-> result.graphNode])])

feasibleTree(G, E, NV) ==
  LET root == G.nodes[1]
  IN GrowTree(MinLenEntries(G.edges, E, <<>>, 1), NV, NodeSet(G) \ {root},
              [nodes |-> <<root>>, edges |-> <<>>, root |-> root])

Subgraph(G, cmpt) == FilterNodes(G, Range(cmpt))

\* rank, lines 288-290, for the component at hand.
RankFeasibleTree ==
  /\ pc = "feasibleTree"
  /\ LET r == feasibleTree(Subgraph(reduced, Head(cmpts)), ev, nv)
     IN /\ nv' = r.nv
        /\ tree' = r.tree
        /\ IF r.thrown
           THEN /\ outcome' = "thrown"
                /\ pc' = "finally"
           ELSE /\ pc' = IF useSimplex THEN "initCutValues" ELSE "normalizeRanks"
                /\ UNCHANGED outcome
  /\ pivot' = NoPivot
  /\ UNCHANGED <<inputGraph, rankSep, rankSepLocal, g, ev, reduced, cmpts, out, useSimplex, before>>

\* ----------------------------------------------------------- network simplex
\* graph.source(e) and graph.target(e), also for the tree.
Source(G, id) == (CHOOSE e \in Range(G.edges) : e.id = id).u

Target(G, id) == (CHOOSE e \in Range(G.edges) : e.id = id).v

\* tree.successors(n), in the order of the tree's edges.
Successors(T, n) ==
  LET es == OutEdges(T, n)
  IN [i \in DOMAIN es |-> es[i].v]

Min2(a, b) == IF a <= b THEN a ELSE b

\* computeLowLim's dfs(n): st holds the node values and postOrderNum.
RECURSIVE LowLimDfs(_, _, _)
RECURSIVE LowLimChildren(_, _, _, _)
LowLimDfs(T, st, n) ==
  LET r == LowLimChildren(T, [nv |-> st.nv, num |-> st.num, low |-> st.num],
                          Successors(T, n), 1)
  IN [nv |-> [r.nv EXCEPT ![n] = SetField(SetField(@, "low", r.low), "lim", r.num)],
      num |-> r.num + 1]

\* The for loop over the children of a node in computeLowLim's dfs.
LowLimChildren(T, st, children, i) ==
  IF i > Len(children) THEN st
  ELSE LET child == children[i]
           d == LowLimDfs(T, [nv |-> st.nv, num |-> st.num], child)
       IN LowLimChildren(T,
                         [nv |-> d.nv, num |-> d.num,
                          low |-> Min2(st.low, d.nv[child].low)],
                         children, i + 1)

computeLowLim(T, NV) == LowLimDfs(T, [nv |-> NV, num |-> 0], T.root).nv

inSubtree(NV, n, root) == NV[root].low <= NV[n].lim /\ NV[n].lim <= NV[root].lim

\* The sum, over the tree edges to the grandchildren, of the cut value, added
\* when the tree edge has the source of its graph edge and subtracted otherwise.
RECURSIVE GrandchildCutSum(_, _, _)
GrandchildCutSum(Gr, grandchildEdges, i) ==
  IF i > Len(grandchildEdges) THEN 0
  ELSE LET gce == grandchildEdges[i]
       IN (IF gce.u = Source(Gr, gce.id) THEN gce.cutValue ELSE -gce.cutValue)
          + GrandchildCutSum(Gr, grandchildEdges, i + 1)

\* setCutValue(graph, tree, child): the tree with the cut value of the tree
\* edge into child.
setCutValue(Gr, T, NV, child) ==
  LET parentEdge == InEdges(T, child)[1]
      grandchildEdges == OutEdges(T, child)
      grandchildren == [i \in DOMAIN grandchildEdges |-> grandchildEdges[i].v]
      outEdges == OutEdges(Gr, child)
      inEdges == InEdges(Gr, child)
      E == Cardinality({p \in (DOMAIN outEdges) \X (DOMAIN grandchildren) :
                          inSubtree(NV, outEdges[p[1]].v, grandchildren[p[2]])})
      G == Cardinality({oe \in DOMAIN outEdges : ~inSubtree(NV, outEdges[oe].v, child)})
      F == Cardinality({p \in (DOMAIN inEdges) \X (DOMAIN grandchildren) :
                          inSubtree(NV, inEdges[p[1]].u, grandchildren[p[2]])})
      H == Cardinality({ie \in DOMAIN inEdges : ~inSubtree(NV, inEdges[ie].u, child)})
      sum == GrandchildCutSum(Gr, grandchildEdges, 1) - E + F - G + H
      cutValue == IF parentEdge.u = Source(Gr, parentEdge.id) THEN sum ELSE -sum
  IN [T EXCEPT !.edges = [i \in DOMAIN @ |-> IF @[i].id = parentEdge.id
                                               THEN [@[i] EXCEPT !.cutValue = cutValue]
                                               ELSE @[i]]]

\* initCutValues' dfs(n): the children first, then the node itself.
RECURSIVE CutValueDfs(_, _, _, _)
RECURSIVE CutValueChildren(_, _, _, _, _)
CutValueDfs(Gr, T, NV, n) ==
  LET T1 == CutValueChildren(Gr, T, NV, Successors(T, n), 1)
  IN IF n # T.root THEN setCutValue(Gr, T1, NV, n) ELSE T1

CutValueChildren(Gr, T, NV, children, i) ==
  IF i > Len(children) THEN T
  ELSE CutValueChildren(Gr, CutValueDfs(Gr, T, NV, children[i]), NV, children, i + 1)

\* initCutValues(graph, spanningTree): low and lim on the node values, a cut
\* value on every tree edge.
initCutValues(Gr, T, NV) ==
  LET NV1 == computeLowLim(T, NV)
      zeroed == [T EXCEPT !.edges = [i \in DOMAIN @ |->
                   [id |-> @[i].id, u |-> @[i].u, v |-> @[i].v, cutValue |-> 0]]]
  IN [nv |-> NV1, tree |-> CutValueDfs(Gr, zeroed, NV1, zeroed.root)]

\* rank, line 294.
RankInitCutValues ==
  /\ pc = "initCutValues"
  /\ LET r == initCutValues(Subgraph(reduced, Head(cmpts)), tree, nv)
     IN /\ nv' = r.nv
        /\ tree' = r.tree
  /\ pc' = "leaveEdge"
  /\ UNCHANGED <<inputGraph, rankSep, rankSepLocal, g, ev, reduced, cmpts, out, outcome,
                 useSimplex, before, pivot>>

\* A variant that also takes a tree edge of cut value 0.
leaveEdgeNotPositive(T) ==
  LET notPositive == {i \in DOMAIN T.edges : T.edges[i].cutValue <= 0}
  IN IF notPositive = {} THEN 0 ELSE T.edges[SetMin(notPositive)].id

\* leaveEdge(tree): the first tree edge of negative cut value, 0 for null.
leaveEdge(T) ==
  LET negative == {i \in DOMAIN T.edges : T.edges[i].cutValue < 0}
  IN IF negative = {} THEN 0 ELSE T.edges[SetMin(negative)].id

\* rank, lines 296-297.
RankLeaveEdge ==
  /\ pc = "leaveEdge"
  /\ LET e == leaveEdge(tree)
     IN /\ pivot' = [pivot EXCEPT !.e = e]
        /\ pc' = IF e = 0 THEN "normalizeRanks" ELSE "enterEdge"
  /\ UNCHANGED <<inputGraph, rankSep, rankSepLocal, g, nv, ev, reduced, cmpts, tree, out,
                 outcome, useSimplex, before>>

\* The length enterEdge takes off an edge's span, value.minLen || 1.
enterEdgeMinLen(value) ==
  IF Has(value, "minLen") /\ value.minLen # 0 THEN value.minLen ELSE 1

\* The slack enterEdge computes for a graph edge.
enterEdgeSlack(NV, E, x) == Abs(NV[x.u].rank - NV[x.v].rank) - enterEdgeMinLen(E[x.val])

\* The node of tree edge e that enterEdge takes for the lower one.
Lower(T, NV, e) ==
  LET source == Source(T, e)
      target == Target(T, e)
  IN IF NV[target].lim < NV[source].lim THEN target ELSE source

\* Is the tree edge aligned with the graph edge?
Aligned(Gr, T, e) == Source(T, e) = Source(Gr, e)

\* A variant that scans the edges from outside the subtree to inside when the
\* tree edge is aligned, and from inside to outside otherwise.
ScannedOutsideIn(NV, aligned, lower, x) ==
  IF aligned
  THEN ~inSubtree(NV, x.u, lower) /\ inSubtree(NV, x.v, lower)
  ELSE inSubtree(NV, x.u, lower) /\ ~inSubtree(NV, x.v, lower)

\* The condition on the ends of an edge in the scan enterEdge makes.
Scanned(NV, aligned, lower, x) ==
  IF aligned
  THEN inSubtree(NV, x.u, lower) /\ ~inSubtree(NV, x.v, lower)
  ELSE ~inSubtree(NV, x.u, lower) /\ inSubtree(NV, x.v, lower)

\* enterEdge(graph, tree, e): the first of the scanned edges of least slack, 0
\* when it throws for want of one.
enterEdge(Gr, T, NV, E, e) ==
  LET lower == Lower(T, NV, e)
      aligned == Aligned(Gr, T, e)
      scanned == {i \in DOMAIN Gr.edges :
                    Gr.edges[i].id # e /\ Scanned(NV, aligned, lower, Gr.edges[i])}
      minSlack == SetMin({enterEdgeSlack(NV, E, Gr.edges[i]) : i \in scanned})
  IN IF scanned = {} THEN 0
     ELSE Gr.edges[SetMin({i \in scanned :
                             enterEdgeSlack(NV, E, Gr.edges[i]) = minSlack})].id

\* rank, line 298.
RankEnterEdge ==
  /\ pc = "enterEdge"
  /\ LET f == enterEdge(Subgraph(reduced, Head(cmpts)), tree, nv, ev, pivot.e)
     IN IF f = 0
        THEN /\ outcome' = "thrown"
             /\ pc' = "finally"
             /\ UNCHANGED pivot
        ELSE /\ pivot' = [pivot EXCEPT !.f = f]
             /\ pc' = "exchange"
             /\ UNCHANGED outcome
  /\ UNCHANGED <<inputGraph, rankSep, rankSepLocal, g, nv, ev, reduced, cmpts, tree, out,
                 useSimplex, before>>

\* exchange's redirect(v): the tree edges above v turned round, the topmost
\* first, each put back at the end of the tree's edges.
RECURSIVE Redirect(_, _)
RECURSIVE RedirectEdges(_, _, _, _)
Redirect(T, v) == RedirectEdges(T, v, InEdges(T, v), 1)

RedirectEdges(T, v, edges, i) ==
  IF i > Len(edges) THEN T
  ELSE LET e == edges[i]
           T1 == Redirect(T, e.u)
           T2 == [T1 EXCEPT !.edges = Append(SelectSeq(@, LAMBDA x : x.id # e.id),
                                             [e EXCEPT !.u = v, !.v = e.u])]
       IN RedirectEdges(T2, v, edges, i + 1)

\* The node exchange's while loop ends at, walking up from n.
RECURSIVE RootAbove(_, _)
RootAbove(T, n) ==
  LET edges == InEdges(T, n)
  IN IF Len(edges) > 0 THEN RootAbove(T, edges[1].u) ELSE n

\* exchange(graph, tree, e, f).
exchange(Gr, T, NV, e, f) ==
  LET source == Source(Gr, f)
      target == Target(Gr, f)
      cut == [T EXCEPT !.edges = SelectSeq(@, LAMBDA x : x.id # e)]
      redirected == Redirect(cut, target)
      rooted == [redirected EXCEPT !.root = RootAbove(redirected, source)]
      joined == [rooted EXCEPT !.edges = Append(@, [id |-> f, u |-> source, v |-> target,
                                                     cutValue |-> 0])]
  IN initCutValues(Gr, joined, NV)

\* The most exchanges the count in pivot tells apart.
MaxExchanges == 3

\* rank, line 299, and back to the head of the loop.
RankExchange ==
  /\ pc = "exchange"
  /\ LET r == exchange(reduced, tree, nv, pivot.e, pivot.f)
     IN /\ nv' = r.nv
        /\ tree' = r.tree
  /\ pivot' = [pivot EXCEPT !.exchanges = IF @ < MaxExchanges THEN @ + 1 ELSE @]
  /\ pc' = "leaveEdge"
  /\ UNCHANGED <<inputGraph, rankSep, rankSepLocal, g, ev, reduced, cmpts, out, outcome,
                 useSimplex, before>>

\* ------------------------------------------------------- normalize (rank.js)
\* A variant that takes the rank of the component's first node for the least.
RankOfFirst(G, NV) == NV[G.nodes[1]].rank

RankOffset(G, NV) == SetMin({NV[u].rank : u \in NodeSet(G)})

normalizeRanks(G, NV) ==
  LET m == RankOffset(G, NV)
  IN [u \in DOMAIN NV |-> IF u \in NodeSet(G) THEN [NV[u] EXCEPT !.rank = @ - m] ELSE NV[u]]

\* rank, line 302, and the step to the next component.
RankNormalize ==
  /\ pc = "normalizeRanks"
  /\ nv' = normalizeRanks(Subgraph(reduced, Head(cmpts)), nv)
  /\ cmpts' = Tail(cmpts)
  /\ pc' = IF Tail(cmpts) = <<>> THEN "expandRanks" ELSE "feasibleTree"
  /\ UNCHANGED <<inputGraph, rankSep, rankSepLocal, g, ev, reduced, tree, out, outcome,
                 useSimplex, before, pivot>>

\* -------------------------------------------------------------- expandRanks
RECURSIVE CopyRank(_, _, _, _)
CopyRank(NV, u, members, i) ==
  IF i > Len(members) THEN NV
  ELSE CopyRank([NV EXCEPT ![members[i]] = SetField(@, "rank", NV[u].rank)],
                u, members, i + 1)

RECURSIVE expandRanksFrom(_, _, _)
expandRanksFrom(compoundNodes, NV, i) ==
  IF i > Len(compoundNodes) THEN NV
  ELSE expandRanksFrom(compoundNodes,
                       CopyRank(NV, compoundNodes[i], NV[compoundNodes[i]].originalNodes, 1),
                       i + 1)

expandRanks(G, NV) == expandRanksFrom(G.compoundNodes, NV, 1)

\* rank, line 305; rank returns.
RankExpand ==
  /\ pc = "expandRanks"
  /\ nv' = expandRanks(reduced, nv)
  /\ pc' = "normalize"
  /\ UNCHANGED <<inputGraph, rankSep, rankSepLocal, g, ev, reduced, cmpts, tree, out,
                 outcome, useSimplex, before, pivot>>

\* ================================================================== layout
\* ----------------------------------------------------- normalize (layout.js)
\* The for loop of normalize for one long edge: the dummy nodes at the ranks
\* between source and target, and the edges of the chain up to the last dummy.
RECURSIVE AddDummies(_, _, _, _, _, _)
AddDummies(st, e, u, rank, i, targetRank) ==
  IF ~(rank < targetRank) THEN [st |-> st, u |-> u]
  ELSE LET v == DummyNode(st.dummyCount + 1)
           a == st.ev[e.val]
           node == [width |-> a.width, height |-> a.height,
                    edge |-> [id |-> e.id, source |-> e.u, target |-> e.v, attrs |-> e.val],
                    rank |-> rank, dummy |-> TRUE]
           marked == IF i = 0 THEN SetField(node, "index", 0)
                     ELSE IF rank + 1 = targetRank THEN SetField(node, "index", 1)
                     ELSE node
           ev1 == Append(st.ev, <<>>)
           g1 == AddAnonEdge(AddNode(st.g, v), u, v, Len(ev1))
       IN AddDummies([st EXCEPT !.g = g1, !.nv = @ @@ (v :> marked), !.ev = ev1,
                                !.dummyCount = @ + 1],
                     e, v, rank + 1, i + 1, targetRank)

\* A variant that takes an edge for long from three ranks on.
IsLongFromThree(sourceRank, targetRank) == sourceRank + 2 < targetRank

\* normalize's test for a long edge.
IsLong(sourceRank, targetRank) == sourceRank + 1 < targetRank

\* The body of normalize's g.eachEdge for one edge.
NormalizeEdge(st, e) ==
  LET sourceRank == st.nv[e.u].rank
      targetRank == st.nv[e.v].rank
  IN IF IsLong(sourceRank, targetRank)
     THEN LET r == AddDummies(st, e, e.u, sourceRank + 1, 0, targetRank)
              ev1 == Append(r.st.ev, <<>>)
          IN [r.st EXCEPT !.g = DelEdge(AddAnonEdge(@, r.u, e.v, Len(ev1)), e.id),
                          !.ev = ev1]
     ELSE st

RECURSIVE NormalizeEdges(_, _, _)
NormalizeEdges(st, edges, i) ==
  IF i > Len(edges) THEN st
  ELSE NormalizeEdges(NormalizeEdge(st, edges[i]), edges, i + 1)

normalize(G, NV, E) ==
  NormalizeEdges([g |-> G, nv |-> NV, ev |-> E, dummyCount |-> 0], G.edges, 1)

\* run, line 139.
Normalize ==
  /\ pc = "normalize"
  /\ LET st == normalize(g, nv, ev)
     IN /\ g' = st.g
        /\ nv' = st.nv
        /\ ev' = st.ev
  /\ pc' = "order"
  /\ UNCHANGED <<inputGraph, rankSep, rankSepLocal, reduced, cmpts, tree, out, outcome,
                 useSimplex, before, pivot>>

\* ------------------------------------------------------- order and position
\* order(g): every node gets a position within its rank (here the one node
\* order gives).
order(G, NV) ==
  [u \in DOMAIN NV |->
     IF u \in NodeSet(G)
     THEN SetField(NV[u], "order",
                   Cardinality({j \in DOMAIN G.nodes :
                                  /\ NV[G.nodes[j]].rank = NV[u].rank
                                  /\ \E k \in DOMAIN G.nodes : k > j /\ G.nodes[k] = u}))
     ELSE NV[u]]

\* run, line 142.
Order ==
  /\ pc = "order"
  /\ nv' = order(g, nv)
  /\ pc' = "position"
  /\ UNCHANGED <<inputGraph, rankSep, rankSepLocal, g, ev, reduced, cmpts, tree, out,
                 outcome, useSimplex, before, pivot>>

\* position.run(g): coordinates from rank, order and the separations; a rank
\* lies rankSep below the one above it.
position(G, NV, sep) ==
  [u \in DOMAIN NV |->
     IF u \in NodeSet(G)
     THEN LET x == NV[u].order
          IN NV[u] @@ [x |-> x, y |-> NV[u].rank * sep, ul |-> x, ur |-> x, dl |-> x, dr |-> x]
     ELSE NV[u]]

\* run, line 145.
Position ==
  /\ pc = "position"
  /\ nv' = position(g, nv, rankSep)
  /\ pc' = "undoNormalize"
  /\ UNCHANGED <<inputGraph, rankSep, rankSepLocal, g, ev, reduced, cmpts, tree, out,
                 outcome, useSimplex, before, pivot>>

\* ------------------------------------------------------------ undoNormalize
\* The body of undoNormalize's g.eachNode for one node.
UndoNode(st, u) ==
  LET a == st.nv[u]
  IN IF Has(a, "dummy") /\ a.dummy /\ Has(a, "index")
     THEN LET edge == a.edge
              g1 == IF ~HasEdge(st.g, edge.id)
                    THEN AddEdge(st.g, edge.id, edge.source, edge.target, edge.attrs)
                    ELSE st.g
              ref == (CHOOSE e \in Range(g1.edges) : e.id = edge.id).val
              point == [x |-> a.x, y |-> a.y, ul |-> a.ul, ur |-> a.ur, dl |-> a.dl,
                        dr |-> a.dr]
          IN [st EXCEPT !.g = DelNode(g1, u),
                        !.ev[ref].points = SetField(@, a.index, point)]
     ELSE st

RECURSIVE UndoNodes(_, _, _)
UndoNodes(st, nodes, i) ==
  IF i > Len(nodes) THEN st
  ELSE UndoNodes(UndoNode(st, nodes[i]), nodes, i + 1)

undoNormalize(G, NV, E) == UndoNodes([g |-> G, nv |-> NV, ev |-> E], G.nodes, 1)

\* run, line 149.
UndoNormalize ==
  /\ pc = "undoNormalize"
  /\ LET st == undoNormalize(g, nv, ev)
     IN /\ g' = st.g
        /\ ev' = st.ev
  /\ pc' = "fixupEdgePoints"
  /\ UNCHANGED <<inputGraph, rankSep, rankSepLocal, nv, reduced, cmpts, tree, out, outcome,
                 useSimplex, before, pivot>>

\* ---------------------------------------------------------- fixupEdgePoints
\* Array.prototype.reverse on an array held as a function of its indices.
ReversePoints(points) ==
  IF DOMAIN points = {} THEN points
  ELSE LET last == SetMax(DOMAIN points)
       IN [i \in {last - j : j \in DOMAIN points} |-> points[last - i]]

RECURSIVE fixupEdgePointsFrom(_, _, _)
fixupEdgePointsFrom(edges, E, i) ==
  IF i > Len(edges) THEN E
  ELSE LET a == E[edges[i].val]
       IN fixupEdgePointsFrom(edges,
                              IF Has(a, "reversed") /\ a.reversed
                              THEN [E EXCEPT ![edges[i].val].points = ReversePoints(@)]
                              ELSE E,
                              i + 1)

fixupEdgePoints(G, E) == fixupEdgePointsFrom(G.edges, E, 1)

\* run, line 152.
FixupEdgePoints ==
  /\ pc = "fixupEdgePoints"
  /\ ev' = fixupEdgePoints(g, ev)
  /\ pc' = "acyclicUndo"
  /\ UNCHANGED <<inputGraph, rankSep, rankSepLocal, g, nv, reduced, cmpts, tree, out,
                 outcome, useSimplex, before, pivot>>

\* ------------------------------------------------------------- acyclic.undo
\* Every edge marked reversed goes back to its original orientation and loses
\* the mark.
RECURSIVE acyclicUndoFrom(_, _, _)
acyclicUndoFrom(st, edges, i) ==
  IF i > Len(edges) THEN st
  ELSE LET e == edges[i]
           a == st.ev[e.val]
       IN acyclicUndoFrom(IF Has(a, "reversed") /\ a.reversed
                          THEN [st EXCEPT !.g.edges = ReverseEdges(@, {e.id}),
                                          !.ev[e.val] = DelField(@, "reversed")]
                          ELSE st,
                          edges, i + 1)

acyclicUndo(G, E) == acyclicUndoFrom([g |-> G, ev |-> E], G.edges, 1)

\* run, line 155.
AcyclicUndo ==
  /\ pc = "acyclicUndo"
  /\ LET st == acyclicUndo(g, ev)
     IN /\ g' = st.g
        /\ ev' = st.ev
  /\ pc' = "createFinalGraph"
  /\ UNCHANGED <<inputGraph, rankSep, rankSepLocal, nv, reduced, cmpts, tree, out, outcome,
                 useSimplex, before, pivot>>

\* --------------------------------------------------------- createFinalGraph
\* The g.eachEdge of createFinalGraph: an edge goes to the output under its
\* value's e when the value has one, and the value then loses its e.  addEdge
\* throws when the output already has an edge of that id.
RECURSIVE FinalEdges(_, _, _)
FinalEdges(st, edges, i) ==
  IF i > Len(edges) \/ st.thrown THEN st
  ELSE LET e == edges[i]
           value == st.ev[e.val]
           id == IF Has(value, "e") THEN value.e ELSE e.id
       IN IF \E o \in Range(st.out.edges) : o.id = id
          THEN [st EXCEPT !.thrown = TRUE]
          ELSE FinalEdges([st EXCEPT !.out.edges = Append(@, [id |-> id, u |-> e.u, v |-> e.v,
                                                               val |-> e.val]),
                                     !.ev[e.val] = DelField(@, "e")],
                          edges, i + 1)

createFinalGraph(G, E, isDirected) ==
  FinalEdges([out |-> [kind |-> IF isDirected THEN "CDigraph" ELSE "CGraph",
                       nodes |-> G.nodes, edges |-> <<>>],
              ev |-> E, thrown |-> FALSE],
             G.edges, 1)

\* run, line 158.
CreateFinalGraph ==
  /\ pc = "createFinalGraph"
  /\ LET st == createFinalGraph(g, ev, inputGraph.directed)
     IN /\ ev' = st.ev
        /\ IF st.thrown
           THEN /\ outcome' = "thrown"
                /\ UNCHANGED out
           ELSE /\ outcome' = "returned"
                /\ out' = st.out
  /\ pc' = "finally"
  /\ UNCHANGED <<inputGraph, rankSep, rankSepLocal, g, nv, reduced, cmpts, tree, useSimplex, before, pivot>>

\* A variant whose finally block restores nothing.
FinallyWithoutRestore ==
  /\ pc = "finally"
  /\ pc' = "done"
  /\ UNCHANGED <<inputGraph, rankSep, rankSepLocal, g, nv, ev, reduced, cmpts, tree, out,
                 outcome, useSimplex, before, pivot>>

\* run, lines 159-161: the finally block, on a return and on a throw alike.
Finally ==
  /\ pc = "finally"
  /\ rankSep' = rankSepLocal
  /\ pc' = "done"
  /\ UNCHANGED <<inputGraph, rankSepLocal, g, nv, ev, reduced, cmpts, tree, out, outcome,
                 useSimplex, before, pivot>>

\* =========================================================== specifications
\* run(inputGraph) on a layout object whose rankSep is one of RankSeps.
Init ==
  /\ pc = "run"
  /\ \E n \in 0..MaxNodes : \E k \in 0..MaxInputSize : inputGraph \in InputGraphs(n, k)
  /\ rankSep \in RankSeps
  /\ before = [rankSep |-> rankSep, inputGraph |-> inputGraph]
  /\ rankSepLocal = 0
  /\ g = EmptyGraph
  /\ nv = <<>>
  /\ ev = <<>>
  /\ reduced = NoGraph
  /\ cmpts = <<>>
  /\ tree = NoTree
  /\ out = NoOut
  /\ outcome = "running"
  /\ useSimplex = FALSE
  /\ pivot = NoPivot

Next ==
  \/ RunBuild
  \/ MakeSpace
  \/ Acyclic
  \/ RemoveDupEdges
  \/ RankCombine
  \/ RankInit
  \/ RankFeasibleTree
  \/ RankNormalize
  \/ RankExpand
  \/ Normalize
  \/ Order
  \/ Position
  \/ UndoNormalize
  \/ FixupEdgePoints
  \/ AcyclicUndo
  \/ CreateFinalGraph
  \/ Finally

Spec == Init /\ [][Next]_vars

\* rank(g) followed by normalize(g), on a working graph W given as it stands
\* when run calls rank: built by initLayoutGraph, every edge with a minLen.
RankStageInit(inputs) ==
  /\ pc = "rank"
  /\ inputGraph \in inputs
  /\ LET st == initLayoutGraph(inputGraph)
     IN /\ g = st.g
        /\ nv = st.nv
        /\ ev = st.ev
  /\ rankSep \in RankSeps
  /\ before = [rankSep |-> rankSep, inputGraph |-> inputGraph]
  /\ rankSepLocal = rankSep
  /\ reduced = NoGraph
  /\ cmpts = <<>>
  /\ tree = NoTree
  /\ out = NoOut
  /\ outcome = "running"
  /\ useSimplex = FALSE
  /\ pivot = NoPivot

NextRank ==
  \/ RankCombine
  \/ RankInit
  \/ RankFeasibleTree
  \/ RankNormalize
  \/ RankExpand
  \/ Normalize

InitPlain == RankStageInit(PlainRankInputs)

SpecPlain == InitPlain /\ [][NextRank]_vars

InitRank == RankStageInit(PlainRankInputs \cup ConstrainedRankInputs)

SpecRank == InitRank /\ [][NextRank]_vars

\* rank(g, true) on a working graph W as it stands when run calls rank: a DAG.
\* The lists of edges along the pairs ps, in their order, with minLen from lens.
ListsOver(ps, lens) ==
  {[i \in DOMAIN ps |-> [u |-> ps[i][1], v |-> ps[i][2], minLen |-> f[i]]] :
     f \in [DOMAIN ps -> lens]}

\* The edge lists of EdgeLists that have no directed cycle.
DagEdgeLists(n, maxEdges, lens) ==
  UNION {ListsOver(SortedPairs(P), lens) :
           P \in {Q \in SUBSET {p \in (1..n) \X (1..n) : p[1] # p[2]} :
                    /\ Cardinality(Q) <= maxEdges
                    /\ NoCycle(1..n, {[u |-> q[1], v |-> q[2]] : q \in Q})}}

\* Working graphs of n nodes without rank constraints.
SimplexPlainInputs(n) ==
  [order : {n}, rank : {[u \in 1..n |-> "none"]},
   edges : DagEdgeLists(n, MaxSimplexEdges, 1..MaxSimplexMinLen),
   directed : {TRUE}]

\* Working graphs of n nodes with rank constraints, "min" and "max" only.
SimplexConstrainedInputs(n) ==
  [order : {n},
   rank : {r \in [1..n -> {"none", "min", "max"}] :
             \A c \in {"min", "max"} :
               Cardinality({u \in 1..n : r[u] = c}) <= MaxSimplexPerRank},
   edges : DagEdgeLists(n, MaxSimplexRankEdges, 1..MaxSimplexMinLen),
   directed : {TRUE}]

InitSimplex ==
  /\ pc = "rank"
  /\ \/ \E n \in 1..MaxSimplexNodes : inputGraph \in SimplexPlainInputs(n)
     \/ \E n \in 1..MaxSimplexRankNodes : inputGraph \in SimplexConstrainedInputs(n)
  /\ LET st == initLayoutGraph(inputGraph)
     IN /\ g = st.g
        /\ nv = st.nv
        /\ ev = st.ev
  /\ rankSep \in RankSeps
  /\ before = [rankSep |-> rankSep, inputGraph |-> inputGraph]
  /\ rankSepLocal = rankSep
  /\ reduced = NoGraph
  /\ cmpts = <<>>
  /\ tree = NoTree
  /\ out = NoOut
  /\ outcome = "running"
  /\ useSimplex = TRUE
  /\ pivot = NoPivot

NextSimplex ==
  \/ RankCombine
  \/ RankInit
  \/ RankFeasibleTree
  \/ RankInitCutValues
  \/ RankLeaveEdge
  \/ RankEnterEdge
  \/ RankExchange
  \/ RankNormalize
  \/ RankExpand

SpecSimplex == InitSimplex /\ [][NextSimplex]_vars

\* The statements of rank, and the two at which the stage is over: normalize
\* when rank has returned and finally when it has thrown.
RankStatements ==
  {"rank", "initRank", "feasibleTree", "initCutValues", "leaveEdge", "enterEdge",
   "exchange", "normalizeRanks", "expandRanks", "normalize", "finally"}

\* rank goes on to another statement.  Every action of NextSimplex is enabled
\* wherever pc is at its statement and moves pc, so this step is enabled
\* exactly where NextSimplex is, and taking it is taking a step of NextSimplex.
Advance == pc \notin {"normalize", "finally"} /\ pc' \in RankStatements \ {pc}

\* rank runs to its end: JavaScript runs the call to completion, so a statement
\* that can execute does execute.
FairSpecSimplex == SpecSimplex /\ WF_pc(Advance)

\* initRank(g) on a graph of any shape.
RECURSIVE AddRawEdges(_, _, _)
AddRawEdges(input, st, e) ==
  IF e > Len(input.edges) THEN st
  ELSE LET value == input.edges[e]
           ev1 == Append(st.ev, IF value.minLen = -1 THEN <<>>
                                ELSE [minLen |-> value.minLen])
       IN AddRawEdges(input,
                      [st EXCEPT !.g = AddAnonEdge(@, value.u, value.v, Len(ev1)),
                                 !.ev = ev1],
                      e + 1)

RawGraph(input) ==
  AddRawEdges(input,
              [g |-> [NoGraph EXCEPT !.nodes = [u \in 1..input.order |-> u]],
               nv |-> [u \in 1..input.order |-> <<>>], ev |-> <<>>],
              1)

InitInitRank ==
  /\ pc = "initRank"
  /\ \E n \in 1..MaxInitNodes : \E k \in 0..MaxInitEdges : inputGraph \in InitRankInputs(n, k)
  /\ LET st == RawGraph(inputGraph)
     IN /\ reduced = st.g
        /\ nv = st.nv
        /\ ev = st.ev
  /\ g = EmptyGraph
  /\ rankSep \in RankSeps
  /\ before = [rankSep |-> rankSep, inputGraph |-> inputGraph]
  /\ rankSepLocal = rankSep
  /\ cmpts = <<>>
  /\ tree = NoTree
  /\ out = NoOut
  /\ outcome = "running"
  /\ useSimplex = FALSE
  /\ pivot = NoPivot

NextInitRank == RankInit

SpecInitRank == InitInitRank /\ [][NextInitRank]_vars

\* ============================================================== properties
\* The rank difference along an edge.
Span(e) == nv[e.v].rank - nv[e.u].rank

HasPrefRank(u, rank) == Has(nv[u], "prefRank") /\ nv[u].prefRank = rank

IsDummy(u) == Has(nv[u], "dummy") /\ nv[u].dummy

Returned == pc = "done" /\ outcome = "returned"

\* The minLen an input edge has before the call, 1 when it gives none.
InputMinLen(e) == IF inputGraph.edges[e].minLen = 0 THEN 1 ELSE inputGraph.edges[e].minLen

\* ----------------------------------------------------------------------- C1
\* C1: once rank has returned, every edge (u,v) of W has
\* rank(v) - rank(u) >= minLen(u,v).
C1_RankRespectsMinLen ==
  pc = "normalize" =>
    \A e \in Range(g.edges) : Span(e) >= ev[e.val].minLen

\* C1: rank returns on 1->2, 3->2, 3->4 (minLen 1) and 4->2 (minLen 2), no
\* prefRank anywhere, with node 3 at rank 1 and node 4 at rank 0.
C1_InfeasibleRanking ==
  /\ pc = "normalize"
  /\ inputGraph.edges = <<[u |-> 1, v |-> 2, minLen |-> 1], [u |-> 3, v |-> 2, minLen |-> 1],
                          [u |-> 3, v |-> 4, minLen |-> 1], [u |-> 4, v |-> 2, minLen |-> 2]>>
  /\ nv[3].rank = 1
  /\ nv[4].rank = 0

C3_NoDummyInOutput ==
  Returned => \A u \in Range(out.nodes) : ~IsDummy(u)

\* C3: run returns on the single edge 1->2 of minLen 2 with the dummy node of
\* rank 2 among the output's nodes.
C3_InteriorDummyReturned ==
  /\ Returned
  /\ inputGraph.directed
  /\ inputGraph.edges = <<[u |-> 1, v |-> 2, minLen |-> 2]>>
  /\ \E u \in Range(out.nodes) : IsDummy(u) /\ nv[u].rank = 2

\* ----------------------------------------------------------------------- C4
\* C4: the edges of the returned graph, by id, are the edges of the input, each
\* once; for a directed input each has the input's source and target.
C4_EdgeSetRoundTrip ==
  Returned =>
    /\ Len(out.edges) = Len(inputGraph.edges)
    /\ {o.id : o \in Range(out.edges)} = DOMAIN inputGraph.edges
    /\ inputGraph.directed =>
         \A o \in Range(out.edges) :
           /\ o.u = inputGraph.edges[o.id].u
           /\ o.v = inputGraph.edges[o.id].v

\* C4: run returns on the single edge 1->2 of minLen 3 with more edges than the
\* input has, edges between dummy nodes among them.
C4_DummyEdgesReturned ==
  /\ Returned
  /\ inputGraph.directed
  /\ inputGraph.edges = <<[u |-> 1, v |-> 2, minLen |-> 3]>>
  /\ Len(out.edges) > 1
  /\ \E o \in Range(out.edges) : IsDummy(o.u) /\ IsDummy(o.v)

\* ----------------------------------------------------------------------- C5
\* C5: once rank has returned, a node of prefRank "min" has a rank no greater,
\* and a node of prefRank "max" a rank no less, than any other node.
C5_MinMaxRespected ==
  pc = "normalize" =>
    \A m \in NodeSet(g) : \A v \in NodeSet(g) :
      /\ HasPrefRank(m, "min") => nv[m].rank <= nv[v].rank
      /\ HasPrefRank(m, "max") => nv[m].rank >= nv[v].rank

\* C5: rank returns on the nodes 1..4 with the edge 2->3 and node 4 of prefRank
\* "max", with node 4 at a rank below node 3's.
C5_MaxBelowAnother ==
  /\ pc = "normalize"
  /\ inputGraph.order = 4
  /\ inputGraph.edges = <<[u |-> 2, v |-> 3, minLen |-> 1]>>
  /\ inputGraph.rank = <<"none", "none", "none", "max">>
  /\ nv[4].rank < nv[3].rank

\* ----------------------------------------------------------------------- C6
\* Scenario S3: nodes a = 1 and b = 2, one directed edge a->b of minLen 3.
S3 ==
  [order |-> 2, rank |-> <<"none", "none">>,
   edges |-> <<[u |-> 1, v |-> 2, minLen |-> 3]>>, directed |-> TRUE]

\* The point undoNormalize takes from a node value.
PointOf(a) == [x |-> a.x, y |-> a.y, ul |-> a.ul, ur |-> a.ur, dl |-> a.dl, dr |-> a.dr]

\* The edge's points hold two entries, the first the point of the dummy node at
\* rank first and the second that of the dummy node at rank second.
PointsFromDummiesAt(points, first, second) ==
  /\ DOMAIN points = {0, 1}
  /\ \E d \in DOMAIN nv : IsDummy(d) /\ nv[d].rank = first /\ points[0] = PointOf(nv[d])
  /\ \E d \in DOMAIN nv : IsDummy(d) /\ nv[d].rank = second /\ points[1] = PointOf(nv[d])

S3Edge == CHOOSE o \in Range(out.edges) : o.id = 1

\* C6 as stated: on S3 the ranks are a = 0 and b = 3 and the edge has two points,
\* from the dummy nodes at ranks 1 and 2.
C6_S3RanksZeroThree ==
  (Returned /\ inputGraph = S3) =>
    /\ nv[1].rank = 0
    /\ nv[2].rank = 3
    /\ PointsFromDummiesAt(ev[S3Edge.val].points, 1, 2)

\* C6 as the code has it: on S3 the ranks are a = 0 and b = 6, minLen being
\* doubled, and the edge has two points, from the dummy nodes at ranks 1 and 5,
\* the first and the last of the chain.
C6_S3RanksZeroSix ==
  (Returned /\ inputGraph = S3) =>
    /\ nv[1].rank = 0
    /\ nv[2].rank = 6
    /\ PointsFromDummiesAt(ev[S3Edge.val].points, 1, 5)

\* C6: run has returned on S3.
C6_S3Returned ==
  /\ Returned
  /\ inputGraph = S3
  /\ \E o \in Range(out.edges) : o.id = 1 /\ o.u = 1 /\ o.v = 2

\* ----------------------------------------------------------------------- C7
\* The returned edges that stand for input edges.
InputEdgesReturned == {o \in Range(out.edges) : o.id \in DOMAIN inputGraph.edges}

C8_MinLenDoubledOnce ==
  pc = "acyclic" =>
    \A e \in Range(g.edges) : ev[e.val].minLen = 2 * InputMinLen(ev[e.val].e)

\* C8: W, built from an undirected input with one edge that gives no minLen, is
\* handed to acyclic with minLen 4 on both of its edges.
C8_UndirectedDoubledTwice ==
  /\ pc = "acyclic"
  /\ ~inputGraph.directed
  /\ inputGraph.edges = <<[u |-> 1, v |-> 2, minLen |-> 0]>>
  /\ Len(g.edges) = 2
  /\ \A e \in Range(g.edges) : ev[e.val].minLen = 4

\* ----------------------------------------------------------------------- C9
\* C9 as stated: once rank has returned, no rank is negative and every weakly
\* connected component of W has a node of rank 0.
C9_WComponentsStartAtZero ==
  pc = "normalize" =>
    \A u \in NodeSet(g) :
      /\ nv[u].rank >= 0
      /\ \E w \in Connected(g, {u}) : nv[w].rank = 0

\* C9 as the code has it: once rank has returned, no rank is negative and every
\* weakly connected component of the reduced graph (W with the nodes of one
\* prefRank merged and the "min" and "max" edges added) has a node of rank 0;
\* a node with a prefRank has the rank of its compound node.
C9_ReducedComponentsStartAtZero ==
  pc = "normalize" =>
    /\ \A u \in NodeSet(g) : nv[u].rank >= 0
    /\ \A u \in NodeSet(reduced) : \E w \in Connected(reduced, {u}) : nv[w].rank = 0
    /\ \A c \in Range(reduced.compoundNodes) :
         \A u \in Range(nv[c].originalNodes) : nv[u].rank = nv[c].rank

\* C9: rank has returned on a graph where a node with a prefRank, no edge at
\* it, has a rank above 0.
C9_LoneConstrainedNodeAboveZero ==
  /\ pc = "normalize"
  /\ \E u \in NodeSet(g) :
       /\ Has(nv[u], "prefRank")
       /\ Connected(g, {u}) = {u}
       /\ nv[u].rank > 0

\* ---------------------------------------------------------------------- C10
\* The graph has a directed cycle: some edge's source is reachable from its
\* target.
HasCycle(G) == \E e \in Range(G.edges) : e.u \in Reachable(Range(G.edges), {e.v})

\* The length initRank is to count for an edge: its minLen, 0 included, and 1
\* when it has none.
CountedLen(e) == IF "minLen" \in DOMAIN ev[e.val] THEN ev[e.val].minLen ELSE 1

\* C10: initRank throws exactly when the graph has a directed cycle (a self-loop
\* included); otherwise a node without in-edges has rank 0 and every other node
\* the greatest rank(u) + minLen(u,v) over its in-edges (u,v).
C10_InitRankLongestPath ==
  pc # "initRank" =>
    IF HasCycle(reduced)
    THEN outcome = "thrown"
    ELSE /\ outcome # "thrown"
         /\ \A v \in NodeSet(reduced) :
              LET into == {e \in Range(reduced.edges) : e.v = v}
              IN nv[v].rank = IF into = {} THEN 0
                              ELSE SetMax({nv[e.u].rank + CountedLen(e) : e \in into})

\* C10: initRank has returned on a graph with an edge of minLen 0, one without
\* minLen and a node with two in-edges.
C10_RankedWithZeroAndDefault ==
  /\ pc = "feasibleTree"
  /\ \E e \in Range(reduced.edges) : Has(ev[e.val], "minLen") /\ ev[e.val].minLen = 0
  /\ \E e \in Range(reduced.edges) : ~Has(ev[e.val], "minLen")
  /\ \E v \in NodeSet(reduced) : Len(InEdges(reduced, v)) = 2

\* C10: initRank has thrown on a graph whose only cycle is a self-loop.
C10_ThrownOnSelfLoop ==
  /\ outcome = "thrown"
  /\ \E e \in Range(reduced.edges) : e.u = e.v
  /\ ~HasCycle([reduced EXCEPT !.edges = SelectSeq(@, LAMBDA e : e.u # e.v)])

\* The component rank is working on, and its edges.
Component == Subgraph(reduced, Head(cmpts))

ComponentEdges == Range(Component.edges)

\* The leaving tree edge and the entering graph edge of the pivot at hand.
LeavingEdge == CHOOSE x \in Range(tree.edges) : x.id = pivot.e

EnteringEdge == CHOOSE x \in ComponentEdges : x.id = pivot.f

\* S: the nodes of the subtree rooted at the leaving edge's end of smaller lim,
\* found by walking down the tree's edges.
PivotSubtree ==
  LET lowerEnd == IF nv[LeavingEdge.v].lim < nv[LeavingEdge.u].lim
                  THEN LeavingEdge.v ELSE LeavingEdge.u
  IN Reachable(Range(tree.edges), {lowerEnd})

\* The leaving tree edge runs the way its graph edge does.
PivotAligned == \E x \in ComponentEdges : x.id = pivot.e /\ x.u = LeavingEdge.u

OutsideIn(x) == x.u \notin PivotSubtree /\ x.v \in PivotSubtree

InsideOut(x) == x.u \in PivotSubtree /\ x.v \notin PivotSubtree

\* The slack of a graph edge, an explicit minLen of 0 counted as 0.
Slack(x) == Abs(nv[x.v].rank - nv[x.u].rank) - CountedLen(x)

\* x goes from outside S to inside S when inward, from inside to outside when not.
Crosses(x, inward) == IF inward THEN OutsideIn(x) ELSE InsideOut(x)

\* x is a graph edge other than the leaving one, of least slack among those
\* that cross S the same way.
LeastSlackCrossing(x, inward) ==
  /\ x.id # pivot.e
  /\ Crosses(x, inward)
  /\ \A y \in ComponentEdges :
       y.id # pivot.e /\ Crosses(y, inward) => Slack(x) <= Slack(y)

NoNegativeCutValue == \A x \in Range(tree.edges) : x.cutValue >= 0

\* C12: with useSimplex set, on every component of the reduced graph the pivot
\* loop that starts after initCutValues comes to its end: rank reaches the
\* statement after the loop with a spanning tree that has no tree edge of
\* negative cut value, without having thrown "No edge found".
C12_PivotLoopEnds ==
  (pc = "initCutValues") ~>
    (pc = "normalizeRanks" /\ NoNegativeCutValue /\ outcome = "running")

\* C12: the pivot loop has ended after two exchanges on one component.
C12_EndedAfterTwoExchanges ==
  /\ pc = "normalizeRanks"
  /\ pivot.exchanges = 2
  /\ NoNegativeCutValue

====
